---- MODULE Spec2Model ----
(***************************************************************************)
(* Model of src/main.py: the EditeurPDF annotation store (elements), its   *)
(* registration operations (ajouter_texte, ajouter_image, reinitialiser),  *)
(* the compositor (generer) and the signature-block helper                 *)
(* (signer_pdf_region).                                                    *)
(*                                                                         *)
(* Conventions of the model:                                               *)
(*  - a Python str is a sequence of tokens; the token "\n" is the line     *)
(*    break, any other token is a piece of text without line break;        *)
(*  - None is the empty sequence and a set optional value v is <<v>>;      *)
(*  - a computed coordinate or size is an exact fraction [n, d] in lowest  *)
(*    terms (d > 0); the rounding of Python floats is not modelled;        *)
(*  - an opacity is given in hundredths (100 is 1.0);                      *)
(*  - the file system maps a path to [etat |-> "absent"], to               *)
(*    [etat |-> "partiel"] (created or truncated, not a whole document) or *)
(*    to [etat |-> "complet", pages |-> ...];                              *)
(*  - a page is [id, largeur, hauteur, calques]: the original content, the *)
(*    media box and the overlays merged onto it, oldest first.             *)
(***************************************************************************)
EXTENDS Integers, Sequences, FiniteSets, TLC

VARIABLES elements, fichiers, dernier

vars == <<elements, fichiers, dernier>>

(***************************************************************************)
(* Bounds of the model.                                                    *)
(***************************************************************************)
MaxElems == 3

MaxElemsErreurs == 2

MaxElemsIdem == 2

MaxElemsTexte == 1

MaxElemsImage == 1

MaxElemsSignature == 4

MaxTexte == 3

MaxPages == 2

MaxCalques == 2

(***************************************************************************)
(* Exact fractions.                                                        *)
(***************************************************************************)
Abs(n) == IF n < 0 THEN -n ELSE n

RECURSIVE PGCD(_, _)
PGCD(a, b) == IF b = 0 THEN a ELSE PGCD(b, a % b)

Frac(n, d) ==
    LET g == PGCD(Abs(n), Abs(d))
        s == IF d < 0 THEN -1 ELSE 1
    IN  [n |-> (s * n) \div g, d |-> (s * d) \div g]

FracInt(n) == [n |-> n, d |-> 1]

FracMul(a, b) == Frac(a.n * b.n, a.d * b.d)

FracDiv(a, b) == Frac(a.n * b.d, a.d * b.n)

FracSub(a, b) == Frac(a.n * b.d - b.n * a.d, a.d * b.d)

(***************************************************************************)
(* Optional values (None / a value).                                       *)
(***************************************************************************)
None == <<>>

Some(v) == <<v>>

(***************************************************************************)
(* The environment of one call: the fonts the drawing surface knows, the   *)
(* colour strings HexColor parses, the image files and their pixel sizes.  *)
(***************************************************************************)
PolicesConnues == {"Helvetica", "Helvetica-Bold", "Times-Roman", "Courier"}

CouleursValides == {"#000000", "#FF0000"}

ImagesLisibles == {"resources/adobe_logo.png", "portrait.png", "carre.png"}

TailleImage(chemin) ==
    CASE chemin = "resources/adobe_logo.png" -> <<200, 100>>
      [] chemin = "portrait.png" -> <<30, 60>>
      [] OTHER -> <<50, 50>>

fichier_pdf_entree == "document.pdf"

Absent == [etat |-> "absent"]

Partiel == [etat |-> "partiel"]

Document(pages) == [etat |-> "complet", pages |-> pages]

PageOrigine(i) ==
    [id |-> i,
     largeur |-> IF i % 2 = 1 THEN 595 ELSE 612,
     hauteur |-> IF i % 2 = 1 THEN 842 ELSE 792,
     calques |-> <<>>]

DocumentOrigine(p) == Document([i \in 1..p |-> PageOrigine(i)])

(***************************************************************************)
(* Registration: ajouter_texte, ajouter_image, reinitialiser.              *)
(***************************************************************************)
\* Mutation of ElementTexte: the two coordinates exchanged.
ElementTexteXY(texte, x, y, page, taille_police, police, couleur, rotation, opacite) ==
    [type |-> "texte", texte |-> texte, x |-> y, y |-> x, page |-> page,
     taille_police |-> taille_police, police |-> police, couleur |-> couleur,
     rotation |-> rotation, opacite |-> opacite]

ElementTexte(texte, x, y, page, taille_police, police, couleur, rotation, opacite) ==
    [type |-> "texte", texte |-> texte, x |-> x, y |-> y, page |-> page,
     taille_police |-> taille_police, police |-> police, couleur |-> couleur,
     rotation |-> rotation, opacite |-> opacite]

ElementImage(chemin_image, x, y, page, largeur, hauteur, conserver_ratio, rotation, opacite) ==
    [type |-> "image", chemin_image |-> chemin_image, x |-> x, y |-> y,
     page |-> page, largeur |-> largeur, hauteur |-> hauteur,
     conserver_ratio |-> conserver_ratio, rotation |-> rotation,
     opacite |-> opacite]

ajouter_texte(texte, x, y, page, taille_police, police, couleur, rotation, opacite) ==
    LET elem == ElementTexte(texte, x, y, page, taille_police, police,
                             couleur, rotation, opacite)
    IN  /\ elements' = Append(elements, elem)
        /\ dernier' = [op |-> "ajouter_texte",
                       args |-> <<texte, x, y, page, taille_police, police,
                                  couleur, rotation, opacite>>,
                       statut |-> "ok"]
        /\ UNCHANGED fichiers

ajouter_image(chemin_image, x, y, page, largeur, hauteur, conserver_ratio, rotation, opacite) ==
    LET elem == ElementImage(chemin_image, x, y, page, largeur, hauteur,
                             conserver_ratio, rotation, opacite)
    IN  /\ elements' = Append(elements, elem)
        /\ dernier' = [op |-> "ajouter_image",
                       args |-> <<chemin_image, x, y, page, largeur, hauteur,
                                  conserver_ratio, rotation, opacite>>,
                       statut |-> "ok"]
        /\ UNCHANGED fichiers

reinitialiser ==
    /\ elements' = <<>>
    /\ dernier' = [op |-> "reinitialiser", statut |-> "ok"]
    /\ UNCHANGED fichiers

(***************************************************************************)
(* generer, step 1: the elements grouped by page (a dict keyed by the page *)
(* index, each value in the order of the store).                           *)
(***************************************************************************)
RECURSIVE Grouper(_, _, _)
Grouper(els, k, elements_par_page) ==
    IF k > Len(els) THEN elements_par_page
    ELSE LET elem == els[k]
             page == elem.page
             d == IF page \notin DOMAIN elements_par_page
                  THEN elements_par_page @@ (page :> <<>>)
                  ELSE elements_par_page
         IN  Grouper(els, k + 1, [d EXCEPT ![page] = Append(@, elem)])

\* Mutation of ElementsParPage: each group filled from its head.
RECURSIVE GrouperInverse(_, _, _)
GrouperInverse(els, k, elements_par_page) ==
    IF k > Len(els) THEN elements_par_page
    ELSE LET elem == els[k]
             page == elem.page
             d == IF page \notin DOMAIN elements_par_page
                  THEN elements_par_page @@ (page :> <<>>)
                  ELSE elements_par_page
         IN  GrouperInverse(els, k + 1, [d EXCEPT ![page] = <<elem>> \o @])

ElementsParPageInverse(els) == GrouperInverse(els, 1, <<>>)

ElementsParPage(els) == Grouper(els, 1, <<>>)

(***************************************************************************)
(* generer, step 2: what one element paints on the canvas of its page.     *)
(* A painting is [statut, ops]; statut names the failure that aborts it.   *)
(***************************************************************************)
Echec(statut) == [statut |-> statut, ops |-> <<>>]

RECURSIVE Decouper(_, _, _)
Decouper(texte, k, lignes) ==
    IF k > Len(texte) THEN lignes
    ELSE IF texte[k] = "\n"
         THEN Decouper(texte, k + 1, Append(lignes, <<>>))
         ELSE Decouper(texte, k + 1,
                       [lignes EXCEPT ![Len(lignes)] = Append(@, texte[k])])

\* Mutation of Lignes: str.splitlines(), which has no empty last line.
LignesSansFin(texte) ==
    LET lignes == Decouper(texte, 1, << <<>> >>)
    IN  IF lignes[Len(lignes)] = <<>>
        THEN SubSeq(lignes, 1, Len(lignes) - 1)
        ELSE lignes

\* str.split('\n')
Lignes(texte) == Decouper(texte, 1, << <<>> >>)

\* i * taille_police * 1.2
Interligne(i, taille_police) == FracMul(FracInt(i * taille_police), Frac(6, 5))

DessinerLignes(elem) ==
    LET lignes == Lignes(elem.texte)
    IN  IF elem.rotation # 0
        THEN << [op |-> "translate", x |-> elem.x, y |-> elem.y],
                [op |-> "rotate", angle |-> elem.rotation] >>
             \o [i \in 1..Len(lignes) |->
                   [op |-> "drawString", x |-> 0,
                    y |-> FracMul(FracInt(-(i - 1) * elem.taille_police), Frac(6, 5)),
                    texte |-> lignes[i]]]
        ELSE [i \in 1..Len(lignes) |->
                [op |-> "drawString", x |-> elem.x,
                 y |-> FracSub(FracInt(elem.y), Interligne(i - 1, elem.taille_police)),
                 texte |-> lignes[i]]]

\* Mutation of DessinerTexte: an unparsable colour falls back to black.
DessinerTexteCouleurDefaut(elem) ==
    IF elem.police \notin PolicesConnues THEN Echec("FontUnresolvable")
    ELSE [statut |-> "ok",
          ops |-> << [op |-> "setFont", police |-> elem.police,
                      taille |-> elem.taille_police],
                     [op |-> "setFillColor",
                      couleur |-> IF elem.couleur \in CouleursValides
                                  THEN elem.couleur ELSE "#000000"],
                     [op |-> "setFillAlpha", alpha |-> elem.opacite] >>
                  \o DessinerLignes(elem)]

DessinerTexte(elem) ==
    IF elem.police \notin PolicesConnues THEN Echec("FontUnresolvable")
    ELSE IF elem.couleur \notin CouleursValides THEN Echec("ColorParseError")
    ELSE [statut |-> "ok",
          ops |-> << [op |-> "setFont", police |-> elem.police,
                      taille |-> elem.taille_police],
                     [op |-> "setFillColor", couleur |-> elem.couleur],
                     [op |-> "setFillAlpha", alpha |-> elem.opacite] >>
                  \o DessinerLignes(elem)]

\* Mutation of TailleFinale: the two ratios exchanged.
TailleFinaleInverse(elem, img_largeur, img_hauteur) ==
    IF elem.largeur = None /\ elem.hauteur = None
    THEN <<FracInt(img_largeur), FracInt(img_hauteur)>>
    ELSE IF elem.largeur # None /\ elem.hauteur = None
    THEN LET largeur_finale == FracInt(elem.largeur[1])
         IN  IF elem.conserver_ratio
             THEN <<largeur_finale,
                    FracMul(largeur_finale, Frac(img_largeur, img_hauteur))>>
             ELSE <<largeur_finale, FracInt(img_hauteur)>>
    ELSE IF elem.largeur = None /\ elem.hauteur # None
    THEN LET hauteur_finale == FracInt(elem.hauteur[1])
         IN  IF elem.conserver_ratio
             THEN <<FracMul(hauteur_finale, Frac(img_hauteur, img_largeur)),
                    hauteur_finale>>
             ELSE <<FracInt(img_largeur), hauteur_finale>>
    ELSE <<FracInt(elem.largeur[1]), FracInt(elem.hauteur[1])>>

\* <<largeur_finale, hauteur_finale>>
TailleFinale(elem, img_largeur, img_hauteur) ==
    IF elem.largeur = None /\ elem.hauteur = None
    THEN <<FracInt(img_largeur), FracInt(img_hauteur)>>
    ELSE IF elem.largeur # None /\ elem.hauteur = None
    THEN LET largeur_finale == FracInt(elem.largeur[1])
             ratio == FracDiv(FracInt(img_hauteur), FracInt(img_largeur))
         IN  IF elem.conserver_ratio
             THEN <<largeur_finale, FracMul(largeur_finale, ratio)>>
             ELSE <<largeur_finale, FracInt(img_hauteur)>>
    ELSE IF elem.largeur = None /\ elem.hauteur # None
    THEN LET hauteur_finale == FracInt(elem.hauteur[1])
             ratio == FracDiv(FracInt(img_largeur), FracInt(img_hauteur))
         IN  IF elem.conserver_ratio
             THEN <<FracMul(hauteur_finale, ratio), hauteur_finale>>
             ELSE <<FracInt(img_largeur), hauteur_finale>>
    ELSE <<FracInt(elem.largeur[1]), FracInt(elem.hauteur[1])>>

DessinerImage(elem) ==
    IF elem.chemin_image \notin ImagesLisibles
    THEN Echec("ImageResourceUnreadable")
    ELSE LET img == TailleImage(elem.chemin_image)
             t == TailleFinale(elem, img[1], img[2])
             tourne == elem.rotation # 0
         IN  [statut |-> "ok",
              ops |-> << [op |-> "setFillAlpha", alpha |-> elem.opacite],
                         [op |-> "setStrokeAlpha", alpha |-> elem.opacite] >>
                      \o (IF tourne
                          THEN << [op |-> "translate", x |-> elem.x, y |-> elem.y],
                                  [op |-> "rotate", angle |-> elem.rotation] >>
                          ELSE <<>>)
                      \o << [op |-> "drawImage", image |-> elem.chemin_image,
                             x |-> IF tourne THEN 0 ELSE elem.x,
                             y |-> IF tourne THEN 0 ELSE elem.y,
                             width |-> t[1], height |-> t[2],
                             preserveAspectRatio |-> elem.conserver_ratio,
                             mask |-> "auto"] >>]

DessinerElement(elem) ==
    IF elem.type = "texte" THEN DessinerTexte(elem)
    ELSE IF elem.type = "image" THEN DessinerImage(elem)
    ELSE [statut |-> "ok", ops |-> <<>>]

(***************************************************************************)
(* generer, step 3: the overlay of one page (every element of the page's   *)
(* group, in the group's order, each between saveState and restoreState),  *)
(* and the pages of the output.                                            *)
(***************************************************************************)
RECURSIVE DessinerElements(_, _, _)
DessinerElements(els, k, rendus) ==
    IF k > Len(els) THEN [statut |-> "ok", rendus |-> rendus]
    ELSE LET r == DessinerElement(els[k])
         IN  IF r.statut # "ok"
             THEN [statut |-> r.statut, rendus |-> rendus]
             ELSE DessinerElements(els, k + 1,
                     Append(rendus,
                            [elem |-> els[k],
                             ops |-> << [op |-> "saveState"] >> \o r.ops
                                     \o << [op |-> "restoreState"] >>]))

\* Mutation of merge_page: the overlay is dropped.
merge_page_oubli(page_existante, calque) == page_existante

\* page_existante.merge_page(nouveau_pdf.pages[0])
merge_page(page_existante, calque) ==
    [page_existante EXCEPT !.calques = Append(@, calque)]

RECURSIVE TraiterPages(_, _, _, _)
TraiterPages(pages, num_page, elements_par_page, sortie) ==
    IF num_page >= Len(pages) THEN [statut |-> "ok", pages |-> sortie]
    ELSE LET page_existante == pages[num_page + 1]
         IN  IF num_page \in DOMAIN elements_par_page
             THEN LET c == DessinerElements(elements_par_page[num_page], 1, <<>>)
                      calque == [largeur |-> page_existante.largeur,
                                 hauteur |-> page_existante.hauteur,
                                 rendus |-> c.rendus]
                  IN  IF c.statut # "ok"
                      THEN [statut |-> c.statut, pages |-> sortie]
                      ELSE TraiterPages(pages, num_page + 1, elements_par_page,
                              Append(sortie, merge_page(page_existante, calque)))
             ELSE TraiterPages(pages, num_page + 1, elements_par_page,
                               Append(sortie, page_existante))

\* Mutation of Composer: an element whose page the document lacks is an error.
ComposerValidant(source, els) ==
    IF source.etat # "complet"
    THEN [statut |-> "SourceDocumentUnreadable", pages |-> <<>>]
    ELSE IF \E k \in 1..Len(els) : els[k].page \notin 0..(Len(source.pages) - 1)
    THEN [statut |-> "PageIndexUnresolvable", pages |-> <<>>]
    ELSE TraiterPages(source.pages, 0, ElementsParPage(els), <<>>)

\* The reader, the grouping and the loop over the pages.
Composer(source, els) ==
    IF source.etat # "complet"
    THEN [statut |-> "SourceDocumentUnreadable", pages |-> <<>>]
    ELSE TraiterPages(source.pages, 0, ElementsParPage(els), <<>>)

(***************************************************************************)
(* generer, step 4: the output file. open(..., "wb") creates or truncates  *)
(* the file before anything is written; ecriture is what the file system   *)
(* does: "ok", "open" (open fails) or "write" (a write fails after open).  *)
(***************************************************************************)
Ecrire(fs, fichier_pdf_sortie, pages, ecriture) ==
    IF ecriture = "open" THEN fs
    ELSE IF ecriture = "write" THEN [fs EXCEPT ![fichier_pdf_sortie] = Partiel]
    ELSE [fs EXCEPT ![fichier_pdf_sortie] = Document(pages)]

\* Mutation of generer: the store is consumed by the call.
generer_consomme(fichier_pdf_sortie, ecriture) ==
    LET source == fichiers[fichier_pdf_entree]
        r == Composer(source, elements)
    IN  /\ fichiers' = IF r.statut = "ok"
                       THEN Ecrire(fichiers, fichier_pdf_sortie, r.pages, ecriture)
                       ELSE fichiers
        /\ dernier' = [op |-> "generer",
                       fichier_pdf_sortie |-> fichier_pdf_sortie,
                       lu |-> source,
                       statut |-> IF r.statut # "ok" THEN r.statut
                                  ELSE IF ecriture = "ok" THEN "ok"
                                  ELSE "OutputWriteFailure"]
        /\ elements' = <<>>

generer(fichier_pdf_sortie, ecriture) ==
    LET source == fichiers[fichier_pdf_entree]
        r == Composer(source, elements)
    IN  /\ fichiers' = IF r.statut = "ok"
                       THEN Ecrire(fichiers, fichier_pdf_sortie, r.pages, ecriture)
                       ELSE fichiers
        /\ dernier' = [op |-> "generer",
                       fichier_pdf_sortie |-> fichier_pdf_sortie,
                       lu |-> source,
                       statut |-> IF r.statut # "ok" THEN r.statut
                                  ELSE IF ecriture = "ok" THEN "ok"
                                  ELSE "OutputWriteFailure"]
        /\ UNCHANGED elements

(***************************************************************************)
(* signer_pdf_region: one image and two texts through the store's own      *)
(* operations. largeur and hauteur are parameters the body never reads;    *)
(* date is datetime.now().strftime('%d/%m/%Y').                            *)
(***************************************************************************)
TexteLorem ==
    << "Lorem ipsum dolor sit amet, consectetur adipiscing elit. ", "\n",
       "Pellentesque fermentum aliquam urna eu bibendum. ", "\n",
       "Morbi sit amet blandit purus." >>

TexteSignataire(date) ==
    << "M. John Doe", "\n", "Certified Adobe", "\n", "Signé le ", date >>

\* Mutation of ElementsSignature: the caller's largeur and hauteur are used.
ElementsSignatureTaille(x, y, page, largeur, hauteur, conserver_ratio, chemin_logo_adobe, date) ==
    LET x_adobe == x + 135
        y_adobe == y - 35
        x_signature == x_adobe + 35
        y_signature == y + 5
    IN  << ElementImage(chemin_logo_adobe, x_adobe, y_adobe, page,
                        largeur, hauteur, conserver_ratio, 0, 100),
           ElementTexte(TexteLorem, x, y, page, 6, "Helvetica-Bold",
                        "#000000", 0, 100),
           ElementTexte(TexteSignataire(date), x_signature, y_signature, page,
                        8, "Helvetica-Bold", "#000000", 0, 100) >>

ElementsSignature(x, y, page, largeur, hauteur, conserver_ratio, chemin_logo_adobe, date) ==
    LET x_adobe == x + 135
        y_adobe == y - 35
        x_signature == x_adobe + 35
        y_signature == y + 5
    IN  << ElementImage(chemin_logo_adobe, x_adobe, y_adobe, page,
                        Some(70), Some(70), conserver_ratio, 0, 100),
           ElementTexte(TexteLorem, x, y, page, 6, "Helvetica-Bold",
                        "#000000", 0, 100),
           ElementTexte(TexteSignataire(date), x_signature, y_signature, page,
                        8, "Helvetica-Bold", "#000000", 0, 100) >>

signer_pdf_region(x, y, page, largeur, hauteur, conserver_ratio, chemin_logo_adobe, date) ==
    /\ elements' = elements \o ElementsSignature(x, y, page, largeur, hauteur,
                                   conserver_ratio, chemin_logo_adobe, date)
    /\ dernier' = [op |-> "signer_pdf_region",
                   args |-> <<x, y, page, largeur, hauteur, conserver_ratio,
                              chemin_logo_adobe, date>>,
                   statut |-> "ok"]
    /\ UNCHANGED fichiers

(***************************************************************************)
(* The state after EditeurPDF(fichier_pdf_entree): an empty store; the     *)
(* source document is one of sources and no output file exists yet.        *)
(***************************************************************************)
Chemins == {fichier_pdf_entree, "sortie.pdf"}

Documents == {DocumentOrigine(p) : p \in 1..MaxPages}

InitAvec(sources) ==
    /\ elements = <<>>
    /\ \E s \in sources :
          fichiers = [c \in Chemins |-> IF c = fichier_pdf_entree THEN s ELSE Absent]
    /\ dernier = [op |-> "init", statut |-> "ok"]

\* The bounds of a run: room in the store, and in the overlays of a page.
Place(n, max) == Len(elements) + n <= max

CalquesBornes ==
    LET r == Composer(fichiers[fichier_pdf_entree], elements)
    IN  \A i \in 1..Len(r.pages) : Len(r.pages[i].calques) <= MaxCalques

(***************************************************************************)
(* Spec: well-formed descriptors on the pages 0 and 1, composed into a     *)
(* separate output file that is always written whole.                      *)
(***************************************************************************)
Init == InitAvec(Documents)

Next ==
    \/ \E texte \in {<<"A">>, <<"B">>} :
          Place(1, MaxElems) /\ ajouter_texte(texte, 10, 700, 0, 12, "Helvetica", "#000000", 0, 100)
    \/ \E page \in {1, 2} :
          Place(1, MaxElems) /\ ajouter_image("carre.png", 10, 20, page, None, None, TRUE, 0, 100)
    \/ reinitialiser
    \/ CalquesBornes /\ generer("sortie.pdf", "ok")

Spec == Init /\ [][Next]_vars

(***************************************************************************)
(* What a step that returns from generer successfully has read and written.*)
(***************************************************************************)
GenererReussi == dernier'.op = "generer" /\ dernier'.statut = "ok"

PagesLues == fichiers[fichier_pdf_entree].pages

Sortie == fichiers'[dernier'.fichier_pdf_sortie]

Cible(els, num_page) == \E k \in 1..Len(els) : els[k].page = num_page

DernierCalque(page) == page.calques[Len(page.calques)]

(***************************************************************************)
(* C2: a successful generer writes exactly the pages of the source, in the *)
(* order of the source; a page that at least one element targets carries   *)
(* exactly one overlay more than the source page (same content, same media *)
(* box, the earlier overlays kept), a page that no element targets is the  *)
(* source page unchanged.                                                  *)
(***************************************************************************)
C2_PagesSortie ==
    [][GenererReussi =>
        /\ Sortie.etat = "complet"
        /\ Len(Sortie.pages) = Len(PagesLues)
        /\ \A i \in 1..Len(PagesLues) :
              LET avant == PagesLues[i]
                  apres == Sortie.pages[i]
              IN  IF Cible(elements, i - 1)
                  THEN /\ apres.id = avant.id
                       /\ apres.largeur = avant.largeur
                       /\ apres.hauteur = avant.hauteur
                       /\ Len(apres.calques) = Len(avant.calques) + 1
                       /\ SubSeq(apres.calques, 1, Len(avant.calques)) = avant.calques
                  ELSE apres = avant]_vars

C2_Temoin ==
    /\ dernier.op = "generer" /\ dernier.statut = "ok"
    /\ Len(dernier.lu.pages) = 2
    /\ Cible(elements, 0) /\ ~Cible(elements, 1)
    /\ fichiers["sortie.pdf"].etat = "complet"
    /\ Len(fichiers["sortie.pdf"].pages[1].calques) = 1
    /\ fichiers["sortie.pdf"].pages[2].calques = <<>>

(***************************************************************************)
(* C3: on every page of a successful generer, the elements painted on the  *)
(* page's overlay are, in this order, the elements of the store that       *)
(* target the page, in the order of the store.                             *)
(***************************************************************************)
C3_OrdrePeinture ==
    [][GenererReussi =>
        \A i \in 1..Len(PagesLues) :
            Cible(elements, i - 1) =>
                LET rendus == DernierCalque(Sortie.pages[i]).rendus
                IN  [k \in 1..Len(rendus) |-> rendus[k].elem]
                      = SelectSeq(elements, LAMBDA e : e.page = i - 1)]_vars

C3_Temoin ==
    /\ dernier.op = "generer" /\ dernier.statut = "ok"
    /\ Len(dernier.lu.pages) = 2
    /\ Len(elements) = 3
    /\ elements[1].page = 0 /\ elements[2].page = 1 /\ elements[3].page = 0
    /\ elements[1] # elements[3]
    /\ Len(DernierCalque(fichiers["sortie.pdf"].pages[1]).rendus) = 2

(***************************************************************************)
(* C5: ajouter_texte and ajouter_image append one descriptor holding the   *)
(* values of the call and leave the earlier ones as they are,              *)
(* reinitialiser empties the store, and generer leaves the store as it is. *)
(***************************************************************************)
C5_Magasin ==
    [][/\ dernier'.op = "ajouter_texte" =>
            LET a == dernier'.args
                e == elements'[Len(elements')]
            IN  /\ Len(elements') = Len(elements) + 1
                /\ SubSeq(elements', 1, Len(elements)) = elements
                /\ e = [type |-> "texte", texte |-> a[1], x |-> a[2], y |-> a[3],
                        page |-> a[4], taille_police |-> a[5], police |-> a[6],
                        couleur |-> a[7], rotation |-> a[8], opacite |-> a[9]]
       /\ dernier'.op = "ajouter_image" =>
            LET a == dernier'.args
                e == elements'[Len(elements')]
            IN  /\ Len(elements') = Len(elements) + 1
                /\ SubSeq(elements', 1, Len(elements)) = elements
                /\ e = [type |-> "image", chemin_image |-> a[1], x |-> a[2],
                        y |-> a[3], page |-> a[4], largeur |-> a[5],
                        hauteur |-> a[6], conserver_ratio |-> a[7],
                        rotation |-> a[8], opacite |-> a[9]]
       /\ dernier'.op = "reinitialiser" => elements' = <<>>
       /\ dernier'.op = "generer" => elements' = elements]_vars

C5_Temoin ==
    /\ dernier.op = "generer"
    /\ Len(elements) >= 2
    /\ \E k \in 1..Len(elements) : elements[k].type = "texte"
    /\ \E k \in 1..Len(elements) : elements[k].type = "image"

(***************************************************************************)
(* SpecErreurs: descriptors with an unknown font, an unparsable colour or  *)
(* a missing image file, on pages the document has or has not; the source  *)
(* document may be missing and the output file may fail to open or to be   *)
(* written.                                                                *)
(***************************************************************************)
Ecritures == {"ok", "open", "write"}

PagesCibles == {-1, 0, 1}

InitErreurs == InitAvec({Absent} \cup Documents)

NextErreurs ==
    \/ \E page \in PagesCibles,
          pc \in {<<"Helvetica", "#000000">>, <<"Inconnue", "#000000">>,
                  <<"Helvetica", "rouge">>} :
          Place(1, MaxElemsErreurs) /\ ajouter_texte(<<"A">>, 10, 700, page, 12, pc[1], pc[2], 0, 100)
    \/ \E page \in PagesCibles :
          Place(1, MaxElemsErreurs) /\ ajouter_image("manquante.png", 10, 20, page, None, None, TRUE, 0, 100)
    \/ reinitialiser
    \/ \E e \in Ecritures : CalquesBornes /\ generer("sortie.pdf", e)

SpecErreurs == InitErreurs /\ [][NextErreurs]_vars

(***************************************************************************)
(* C1: a generer that fails leaves the output target as it was before the  *)
(* call (nothing created, nothing partially written): the target changes   *)
(* only when the call succeeds.                                            *)
(***************************************************************************)
C1_ToutOuRien ==
    [][(dernier'.op = "generer" /\ dernier'.statut # "ok") =>
          fichiers'[dernier'.fichier_pdf_sortie]
             = fichiers[dernier'.fichier_pdf_sortie]]_vars

SansHorsDocument(els, nb_pages) ==
    SelectSeq(els, LAMBDA e : e.page \in 0..(nb_pages - 1))

(***************************************************************************)
(* C4: descriptors whose page the source document does not have are        *)
(* accepted by ajouter_texte and ajouter_image; generer paints none of     *)
(* them, and its outcome and its output are those of the same call on the  *)
(* store without them.                                                     *)
(***************************************************************************)
C4_HorsDocument ==
    [][/\ dernier'.op \in {"ajouter_texte", "ajouter_image"} =>
            /\ dernier'.statut = "ok"
            /\ Len(elements') = Len(elements) + 1
            /\ elements'[Len(elements')].page = dernier'.args[4]
       /\ (dernier'.op = "generer" /\ dernier'.lu.etat = "complet") =>
            LET r == Composer(fichiers[fichier_pdf_entree],
                              SansHorsDocument(elements, Len(PagesLues)))
            IN  /\ r.statut = "ok" <=> dernier'.statut \in {"ok", "OutputWriteFailure"}
                /\ r.statut # "ok" => dernier'.statut = r.statut
                /\ dernier'.statut = "ok" =>
                     /\ Sortie = Document(r.pages)
                     /\ \A i \in 1..Len(Sortie.pages) :
                          \A c \in 1..Len(Sortie.pages[i].calques) :
                            \A k \in 1..Len(Sortie.pages[i].calques[c].rendus) :
                               Sortie.pages[i].calques[c].rendus[k].elem.page = i - 1]_vars

Malforme(e) ==
    \/ e.type = "texte" /\ e.police \notin PolicesConnues
    \/ e.type = "texte" /\ e.couleur \notin CouleursValides
    \/ e.type = "image" /\ e.chemin_image \notin ImagesLisibles

C4_Temoin ==
    /\ dernier.op = "generer" /\ dernier.statut = "ok"
    /\ \E k \in 1..Len(elements) :
          /\ elements[k].page \notin 0..(Len(dernier.lu.pages) - 1)
          /\ Malforme(elements[k])
    /\ \E k \in 1..Len(elements) : elements[k].page = 0
    /\ fichiers["sortie.pdf"].etat = "complet"
    /\ Len(fichiers["sortie.pdf"].pages[1].calques) = 1

AjoutAccepte ==
    dernier'.op \in {"ajouter_texte", "ajouter_image"} =>
        /\ dernier'.statut = "ok"
        /\ Len(elements') = Len(elements) + 1

(***************************************************************************)
(* C10 as stated: ajouter_texte and ajouter_image always append, and a     *)
(* generer on a store that holds a malformed descriptor fails.             *)
(***************************************************************************)
C10_Original ==
    [][/\ AjoutAccepte
       /\ (dernier'.op = "generer" /\ \E k \in 1..Len(elements) : Malforme(elements[k]))
             => dernier'.statut # "ok"]_vars

Genre(e) ==
    IF e.type = "image" THEN "ImageResourceUnreadable"
    ELSE IF e.police \notin PolicesConnues THEN "FontUnresolvable"
    ELSE "ColorParseError"

MalformesDuDocument(els, nb_pages) ==
    {k \in 1..Len(els) : Malforme(els[k]) /\ els[k].page \in 0..(nb_pages - 1)}

(***************************************************************************)
(* C10 amended: ajouter_texte and ajouter_image always append; a generer   *)
(* on a readable source fails when the store holds a malformed descriptor  *)
(* whose page the document has, with the failure of one such descriptor    *)
(* (the font before the colour), and a generer on an unreadable source     *)
(* fails as such.                                                          *)
(***************************************************************************)
C10_Amende ==
    [][/\ AjoutAccepte
       /\ (dernier'.op = "generer" /\ dernier'.lu.etat # "complet")
             => dernier'.statut = "SourceDocumentUnreadable"
       /\ (/\ dernier'.op = "generer"
           /\ dernier'.lu.etat = "complet"
           /\ MalformesDuDocument(elements, Len(PagesLues)) # {})
             => \E k \in MalformesDuDocument(elements, Len(PagesLues)) :
                   dernier'.statut = Genre(elements[k])]_vars

C10_Temoin ==
    /\ dernier.op = "generer" /\ dernier.statut = "ColorParseError"
    /\ dernier.lu.etat = "complet"
    /\ \E k \in 1..Len(elements) :
          /\ elements[k].type = "texte"
          /\ elements[k].couleur = "rouge"
          /\ elements[k].page = 0

(***************************************************************************)
(* SpecIdem: texts on page 0, composed again and again, into a separate    *)
(* output file or over the source document itself.                         *)
(***************************************************************************)
InitIdem == InitAvec(Documents)

NextIdem ==
    \/ Place(1, MaxElemsIdem)
          /\ ajouter_texte(<<"A">>, 10, 700, 0, 12, "Helvetica", "#000000", 0, 100)
    \/ reinitialiser
    \/ \E fichier_pdf_sortie \in Chemins :
          CalquesBornes /\ generer(fichier_pdf_sortie, "ok")

SpecIdem == InitIdem /\ [][NextIdem]_vars

(***************************************************************************)
(* C6: when a successful generer directly follows a successful generer and *)
(* reads the same source document, it writes the same pages as the first:  *)
(* every page the store targets carries one overlay more than the source   *)
(* page, not two.                                                          *)
(***************************************************************************)
C6_Idempotent ==
    [][(/\ dernier.op = "generer" /\ dernier.statut = "ok"
        /\ GenererReussi
        /\ dernier'.lu = dernier.lu) =>
          /\ Sortie = fichiers[dernier.fichier_pdf_sortie]
          /\ \A i \in 1..Len(Sortie.pages) :
                Cible(elements, i - 1) =>
                   Len(Sortie.pages[i].calques) = Len(dernier.lu.pages[i].calques) + 1]_vars

C6_Temoin ==
    /\ dernier.op = "generer" /\ dernier.statut = "ok"
    /\ dernier.fichier_pdf_sortie = fichier_pdf_entree
    /\ Cible(elements, 0)
    /\ fichiers[fichier_pdf_entree] = fichiers["sortie.pdf"]
    /\ dernier.lu.pages[1].calques = <<>>
    /\ Len(fichiers[fichier_pdf_entree].pages[1].calques) = 1

(***************************************************************************)
(* What a successful generer has painted for the k-th element of a store   *)
(* whose elements all target page 0.                                       *)
(***************************************************************************)
Rendu(k) == DernierCalque(Sortie.pages[1]).rendus[k]

Traces(k, op) == SelectSeq(Rendu(k).ops, LAMBDA o : o.op = op)

\* The fraction f is n / d.
Vaut(f, n, d) == f.d > 0 /\ f.n * d = f.d * n

(***************************************************************************)
(* SpecTexte: a store filled with texts of at most MaxTexte tokens (words  *)
(* and line breaks), upright or rotated, then composed.                    *)
(***************************************************************************)
RECURSIVE Textes(_)
Textes(n) ==
    IF n = 0 THEN {<<>>}
    ELSE Textes(n - 1)
         \cup {Append(t, c) : t \in {u \in Textes(n - 1) : Len(u) = n - 1},
                              c \in {"World", "\n"}}

InitTexte == InitAvec({DocumentOrigine(1)})

NextTexte ==
    \/ \E texte \in Textes(MaxTexte) \cup {<<"Hello", "\n", "World">>},
          tr \in {<<10, 0>>, <<7, 0>>, <<10, 90>>} :
          Place(1, MaxElemsTexte)
             /\ ajouter_texte(texte, 10, 700, 0, tr[1], "Helvetica", "#000000", tr[2], 100)
    \/ CalquesBornes /\ generer("sortie.pdf", "ok")

SpecTexte == InitTexte /\ [][NextTexte]_vars

NbSauts(texte) == Cardinality({j \in 1..Len(texte) : texte[j] = "\n"})

RECURSIVE Joindre(_)
Joindre(lignes) ==
    IF Len(lignes) = 1 THEN lignes[1]
    ELSE lignes[1] \o <<"\n">> \o Joindre(Tail(lignes))

(***************************************************************************)
(* C8: for every text of the store with rotation 0 and N line breaks, a    *)
(* successful generer draws N + 1 strings, the lines of the text in order, *)
(* the k-th (from 0) at x and at y - k * taille_police * 1.2.              *)
(***************************************************************************)
C8_Lignes ==
    [][(GenererReussi /\ elements # <<>>) =>
        /\ Len(DernierCalque(Sortie.pages[1]).rendus) = Len(elements)
        /\ \A k \in 1..Len(elements) :
              LET e == elements[k]
                  d == Traces(k, "drawString")
              IN  (e.type = "texte" /\ e.rotation = 0) =>
                    /\ Rendu(k).elem = e
                    /\ Len(d) = NbSauts(e.texte) + 1
                    /\ Joindre([j \in 1..Len(d) |-> d[j].texte]) = e.texte
                    /\ \A j \in 1..Len(d) :
                          /\ d[j].x = e.x
                          /\ \A c \in 1..Len(d[j].texte) : d[j].texte[c] # "\n"
                          /\ Vaut(d[j].y, 5 * e.y - 6 * (j - 1) * e.taille_police, 5)]_vars

C8_Temoin ==
    /\ dernier.op = "generer" /\ dernier.statut = "ok"
    /\ Len(elements) = 1
    /\ elements[1].texte = <<"Hello", "\n", "World">>
    /\ elements[1].x = 10 /\ elements[1].y = 700
    /\ elements[1].taille_police = 10 /\ elements[1].rotation = 0
    /\ LET ops == fichiers["sortie.pdf"].pages[1].calques[1].rendus[1].ops
           d == SelectSeq(ops, LAMBDA o : o.op = "drawString")
       IN  /\ Len(d) = 2
           /\ d[1].texte = <<"Hello">> /\ d[1].y = [n |-> 700, d |-> 1]
           /\ d[2].texte = <<"World">> /\ d[2].y = [n |-> 688, d |-> 1]

(***************************************************************************)
(* SpecImage: a store filled with images of two files, with or without     *)
(* largeur, hauteur and conserver_ratio, then composed.                    *)
(***************************************************************************)
InitImage == InitAvec({DocumentOrigine(1)})

NextImage ==
    \/ \E chemin \in {"resources/adobe_logo.png", "portrait.png"},
          largeur \in {None, Some(0), Some(70), Some(150)},
          hauteur \in {None, Some(0), Some(50)},
          conserver_ratio \in BOOLEAN :
          Place(1, MaxElemsImage)
             /\ ajouter_image(chemin, 10, 20, 0, largeur, hauteur, conserver_ratio, 0, 100)
    \/ CalquesBornes /\ generer("sortie.pdf", "ok")

SpecImage == InitImage /\ [][NextImage]_vars

(***************************************************************************)
(* C7: the width and height generer draws an image with, from the image's  *)
(* pixel size (nw, nh): (nw, nh) when largeur and hauteur are both unset;  *)
(* (largeur, largeur * nh / nw) resp. (hauteur * nw / nh, hauteur) when    *)
(* one is set and conserver_ratio is true; (largeur, nh) resp.             *)
(* (nw, hauteur) when one is set and conserver_ratio is false; (largeur,   *)
(* hauteur) when both are set.                                             *)
(***************************************************************************)
C7_Taille ==
    [][(GenererReussi /\ elements # <<>>) =>
        /\ Len(DernierCalque(Sortie.pages[1]).rendus) = Len(elements)
        /\ \A k \in 1..Len(elements) :
              LET e == elements[k]
                  d == Traces(k, "drawImage")
                  nw == TailleImage(e.chemin_image)[1]
                  nh == TailleImage(e.chemin_image)[2]
                  w == d[1].width
                  h == d[1].height
              IN  e.type = "image" =>
                    /\ Rendu(k).elem = e
                    /\ Len(d) = 1
                    /\ (e.largeur = <<>> /\ e.hauteur = <<>>) =>
                          Vaut(w, nw, 1) /\ Vaut(h, nh, 1)
                    /\ (e.largeur # <<>> /\ e.hauteur = <<>> /\ e.conserver_ratio) =>
                          Vaut(w, e.largeur[1], 1) /\ Vaut(h, e.largeur[1] * nh, nw)
                    /\ (e.largeur = <<>> /\ e.hauteur # <<>> /\ e.conserver_ratio) =>
                          Vaut(w, e.hauteur[1] * nw, nh) /\ Vaut(h, e.hauteur[1], 1)
                    /\ (e.largeur # <<>> /\ e.hauteur = <<>> /\ ~e.conserver_ratio) =>
                          Vaut(w, e.largeur[1], 1) /\ Vaut(h, nh, 1)
                    /\ (e.largeur = <<>> /\ e.hauteur # <<>> /\ ~e.conserver_ratio) =>
                          Vaut(w, nw, 1) /\ Vaut(h, e.hauteur[1], 1)
                    /\ (e.largeur # <<>> /\ e.hauteur # <<>>) =>
                          Vaut(w, e.largeur[1], 1) /\ Vaut(h, e.hauteur[1], 1)]_vars

C7_Temoin ==
    /\ dernier.op = "generer" /\ dernier.statut = "ok"
    /\ Len(elements) = 1
    /\ elements[1].chemin_image = "resources/adobe_logo.png"
    /\ elements[1].largeur = <<70>> /\ elements[1].hauteur = <<>>
    /\ elements[1].conserver_ratio
    /\ LET ops == fichiers["sortie.pdf"].pages[1].calques[1].rendus[1].ops
           d == SelectSeq(ops, LAMBDA o : o.op = "drawImage")
       IN  /\ Len(d) = 1
           /\ d[1].width = [n |-> 70, d |-> 1]
           /\ d[1].height = [n |-> 35, d |-> 1]

(***************************************************************************)
(* SpecSignature: signature blocks and plain texts in the store, composed  *)
(* or cleared.                                                             *)
(***************************************************************************)
InitSignature == InitAvec({DocumentOrigine(2)})

NextSignature ==
    \/ \E x \in {50, 0}, y \in {150, 35}, page \in {0, 1},
          largeur \in {None, Some(150)}, hauteur \in {Some(50)},
          conserver_ratio \in BOOLEAN, date \in {"01/11/2026", "31/12/2026"} :
          Place(3, MaxElemsSignature)
             /\ signer_pdf_region(x, y, page, largeur, hauteur, conserver_ratio,
                                  "resources/adobe_logo.png", date)
    \/ Place(1, MaxElemsSignature)
          /\ ajouter_texte(<<"A">>, 10, 700, 0, 12, "Helvetica", "#000000", 0, 100)
    \/ reinitialiser
    \/ CalquesBornes /\ generer("sortie.pdf", "ok")

SpecSignature == InitSignature /\ [][NextSignature]_vars

====
